---- MODULE Spec2Model ----
(***************************************************************************)
(* Model of streamlit_pg_09.py: the ticket / menu tables of the event      *)
(* dashboard and the handlers that change them (sale, bulk sale, reverse   *)
(* sale, entry, reverse entry, reset, menu update).                        *)
(*                                                                         *)
(* Text values (TicketID, Series, Customer) are sequences of one-character *)
(* strings, so that str(), strip(), split(), int() and zfill() are         *)
(* computed and not assumed.  A nullable cell is None (<<>>) or Some(v)    *)
(* (<<v>>).                                                                *)
(***************************************************************************)
EXTENDS Integers, Sequences, FiniteSets, TLC

VARIABLES tickets, menu, op, bulk_df, success_count, error_tickets,
          summary_final, cache, mem, pc

vars == <<tickets, menu, op, bulk_df, success_count, error_tickets,
          summary_final, cache, mem, pc>>

(***************************************************************************)
(* Bounds of the model.                                                    *)
(***************************************************************************)
MaxMenuRows == 2
MaxBulkRows == 2
MaxSessions == 2

(***************************************************************************)
(* Nullable cells.                                                         *)
(***************************************************************************)
None == <<>>
Some(v) == <<v>>

(***************************************************************************)
(* Text helpers (Python str methods used by the script).                   *)
(***************************************************************************)
DigitChars == {"0", "1", "2", "3", "4", "5", "6", "7", "8", "9"}

DigitVal(c) ==
    CASE c = "0" -> 0 [] c = "1" -> 1 [] c = "2" -> 2 [] c = "3" -> 3
      [] c = "4" -> 4 [] c = "5" -> 5 [] c = "6" -> 6 [] c = "7" -> 7
      [] c = "8" -> 8 [] c = "9" -> 9

DigitChar(d) ==
    CASE d = 0 -> "0" [] d = 1 -> "1" [] d = 2 -> "2" [] d = 3 -> "3"
      [] d = 4 -> "4" [] d = 5 -> "5" [] d = 6 -> "6" [] d = 7 -> "7"
      [] d = 8 -> "8" [] d = 9 -> "9"

RECURSIVE lstrip(_)
lstrip(s) == IF s # <<>> /\ s[1] = " " THEN lstrip(Tail(s)) ELSE s

RECURSIVE rstrip(_)
rstrip(s) ==
    IF s # <<>> /\ s[Len(s)] = " " THEN rstrip(SubSeq(s, 1, Len(s) - 1)) ELSE s

\* str.strip()
strip(s) == rstrip(lstrip(s))

RECURSIVE SplitFrom(_, _, _, _)
SplitFrom(s, sep, cur, acc) ==
    IF s = <<>> THEN Append(acc, cur)
    ELSE IF s[1] = sep THEN SplitFrom(Tail(s), sep, <<>>, Append(acc, cur))
    ELSE SplitFrom(Tail(s), sep, Append(cur, s[1]), acc)

\* str.split(sep): the pieces between the separators, empty pieces included
split(s, sep) == SplitFrom(s, sep, <<>>, <<>>)

\* the text after an optional sign, surrounding blanks removed
Unsigned(p) ==
    LET t == strip(p)
    IN IF t # <<>> /\ t[1] \in {"+", "-"} THEN Tail(t) ELSE t

\* int(p) succeeds: blanks, an optional sign, then at least one digit
IntOK(p) ==
    LET u == Unsigned(p)
    IN u # <<>> /\ \A i \in 1..Len(u) : u[i] \in DigitChars

RECURSIVE DigitsVal(_)
DigitsVal(u) ==
    IF u = <<>> THEN 0
    ELSE 10 * DigitsVal(SubSeq(u, 1, Len(u) - 1)) + DigitVal(u[Len(u)])

\* int(p), for a p with IntOK(p)
IntVal(p) ==
    LET t == strip(p)
    IN IF t[1] = "-" THEN 0 - DigitsVal(Unsigned(p)) ELSE DigitsVal(Unsigned(p))

RECURSIVE StrNat(_)
\* str(n) of a non-negative integer
StrNat(n) ==
    IF n < 10 THEN <<DigitChar(n)>>
    ELSE StrNat(n \div 10) \o <<DigitChar(n % 10)>>

RECURSIVE Zeros(_)
Zeros(k) == IF k <= 0 THEN <<>> ELSE <<"0">> \o Zeros(k - 1)

\* str.zfill(width): pads on the left, after a sign, never truncates
zfill(s, width) ==
    IF Len(s) >= width THEN s
    ELSE IF s # <<>> /\ s[1] \in {"+", "-"}
         THEN <<s[1]>> \o Zeros(width - Len(s)) \o Tail(s)
         ELSE Zeros(width - Len(s)) \o s

\* the width of a TicketID: str(tid).zfill(4)
IdWidth == 4

\* "-" in series
HasDash(s) == \E i \in 1..Len(s) : s[i] = "-"

\* start, end = map(int, series.split("-")) does not raise
UnpackOK(s) ==
    LET parts == split(s, "-")
    IN Len(parts) = 2 /\ IntOK(parts[1]) /\ IntOK(parts[2])

SeriesStart(s) == IntVal(split(s, "-")[1])
SeriesEnd(s) == IntVal(split(s, "-")[2])

(***************************************************************************)
(* Rows of the two tables.                                                 *)
(***************************************************************************)
MenuRow(type, cat, series, admit, seq, alloc, cap) ==
    [Type |-> type, Category |-> cat, Series |-> series, Admit |-> admit,
     Seq |-> seq, Alloc |-> alloc, Total_Capacity |-> cap]

\* the record the menu update builds for a TicketID that did not exist
NewTicket(tid_str, m_row) ==
    [TicketID |-> tid_str,
     Category |-> m_row.Category,
     Type |-> m_row.Type,
     Admit |-> m_row.Admit[1],
     Seq |-> m_row.Seq,
     Sold |-> FALSE,
     Visited |-> FALSE,
     Customer |-> <<>>,
     Visitor_Seats |-> 0,
     Timestamp |-> None]

HasId(df, id) == \E i \in 1..Len(df) : df[i].TicketID = id

\* idx_list[0]: the first row bearing the id
FirstIndex(df, id) ==
    CHOOSE i \in 1..Len(df) :
        /\ df[i].TicketID = id
        /\ \A j \in 1..(i - 1) : df[j].TicketID # id

\* a dict built from the rows in order: the last row bearing the id wins
LastIndex(df, id) ==
    CHOOSE i \in 1..Len(df) :
        /\ df[i].TicketID = id
        /\ \A j \in (i + 1)..Len(df) : df[j].TicketID # id

\* existing_map[tid_str]
existing_map(df, id) == df[LastIndex(df, id)]

(***************************************************************************)
(* The menu rows of the model.                                             *)
(***************************************************************************)
\* rows the operator can leave in the menu editor: malformed in each way,
\* well-formed, overlapping, blank-padded, with an empty Admit cell
MenuPool ==
    << MenuRow("Public", "GENERAL", <<"1", "-", "2", "-", "3">>, Some(1), Some(1), Some(2), Some(2)),
       MenuRow("Public", "GENERAL", <<"1", "-", "2">>, Some(1), Some(1), None, None),
       MenuRow("Guest", "Family Silver", <<" ", "2", "-", "2">>, Some(2), None, None, None),
       MenuRow("Guest", "Family Silver", <<"2", "-", "x">>, Some(2), None, Some(1), Some(2)),
       MenuRow("Public", "GENERAL", <<"1", "2">>, Some(1), Some(1), None, None),
       MenuRow("Public", "GENERAL", <<"1", "-", "2">>, None, Some(0), None, None) >>

\* the menus a deployment can start from, its tickets generated from them
InitMenus ==
    { <<MenuRow("Public", "GENERAL", <<"1", "-", "1">>, Some(1), Some(1), None, None)>>,
      <<MenuPool[3]>> }

\* Series and Admit cells of the rows on which the recomputation of Alloc and
\* Total_Capacity is tried: in order, reversed, not a number, without a
\* dash, blank-padded; Admit empty or filled
RecomputeSeries ==
    << <<"1", "-", "2">>, <<"3", "-", "1">>, <<"2", "-", "x">>, <<"1", "2">>,
       <<" ", "2", "-", "2">> >>

RecomputeAdmits == << None, Some(1), Some(2) >>

\* the rows: every Series with every Admit, Alloc and Total_Capacity filled
\* by an earlier edit
RecomputePool ==
    [k \in 1..(Len(RecomputeSeries) * Len(RecomputeAdmits)) |->
        MenuRow("Public", "GENERAL",
                RecomputeSeries[((k - 1) \div Len(RecomputeAdmits)) + 1],
                RecomputeAdmits[((k - 1) % Len(RecomputeAdmits)) + 1],
                Some(1), Some(7), Some(7))]

\* the Series texts of all those rows
SeriesTexts ==
    { MenuPool[i].Series : i \in 1..Len(MenuPool) } \cup
    { RecomputeSeries[i] : i \in 1..Len(RecomputeSeries) } \cup
    UNION { { m[i].Series : i \in 1..Len(m) } : m \in InitMenus }

\* series = str(row["Series"]).strip(); "-" in series;
\* start, end = map(int, series.split("-")): evaluated once for each text
SeriesParse ==
    [s \in SeriesTexts |->
        LET series == strip(s)
        IN IF ~HasDash(series) THEN [dash |-> FALSE]
           ELSE IF ~UnpackOK(series) THEN [dash |-> TRUE, raised |-> TRUE]
           ELSE [dash |-> TRUE, raised |-> FALSE,
                 start |-> SeriesStart(series), end |-> SeriesEnd(series)]]

(***************************************************************************)
(* Menu update: the ticket list built from the edited menu.                *)
(***************************************************************************)
RECURSIVE RangeLoop(_, _, _, _, _)
\* for tid in range(start, end + 1): acc is new_tickets_list; int(Admit) of an
\* empty Admit cell raises, and what was appended before stays in the list
RangeLoop(m_row, df, tid, end, acc) ==
    IF tid > end THEN [list |-> acc, raised |-> FALSE]
    ELSE LET tid_str == zfill(StrNat(tid), IdWidth)
         IN IF HasId(df, tid_str)
            THEN RangeLoop(m_row, df, tid + 1, end,
                           Append(acc, existing_map(df, tid_str)))
            ELSE IF m_row.Admit = None
                 THEN [list |-> acc, raised |-> TRUE]
                 ELSE RangeLoop(m_row, df, tid + 1, end,
                                Append(acc, NewTicket(tid_str, m_row)))

\* the body of the try block for one menu row
RowBody(m_row, df, acc) ==
    LET p == SeriesParse[m_row.Series]
    IN IF ~p.dash THEN [list |-> acc, raised |-> FALSE]
       ELSE IF p.raised THEN [list |-> acc, raised |-> TRUE]
       ELSE RangeLoop(m_row, df, p.start, p.end, acc)

RECURSIVE MenuLoopBreak(_, _, _, _)
MenuLoopBreak(edited_menu, df, i, acc) ==
    IF i > Len(edited_menu) THEN acc
    ELSE LET r == RowBody(edited_menu[i], df, acc)
         IN IF r.raised THEN r.list
            ELSE MenuLoopBreak(edited_menu, df, i + 1, r.list)

RECURSIVE MenuLoop(_, _, _, _)
\* for _, m_row in edited_menu.iterrows(): try ... except Exception: continue
MenuLoop(edited_menu, df, i, acc) ==
    IF i > Len(edited_menu) THEN acc
    ELSE MenuLoop(edited_menu, df, i + 1, RowBody(edited_menu[i], df, acc).list)

\* final_tickets_df
reconcile(edited_menu, df) == MenuLoop(edited_menu, df, 1, <<>>)

Max(a, b) == IF a >= b THEN a ELSE b

\* one row of recompute_menu_fields: any exception leaves the row as it was
RecomputeRow(row) ==
    LET p == SeriesParse[row.Series]
    IN IF row.Admit = None THEN row
       ELSE IF ~p.dash THEN row
       ELSE IF p.raised THEN row
       ELSE LET count == Max((p.end - p.start) + 1, 0)
            IN [row EXCEPT !.Alloc = Some(count),
                           !.Total_Capacity = Some(count * row.Admit[1])]

recompute_menu_fields(df) == [i \in 1..Len(df) |-> RecomputeRow(df[i])]

(***************************************************************************)
(* Inputs of the handlers.                                                 *)
(***************************************************************************)
Types == {"Public", "Guest"}

RECURSIVE Picks(_, _, _)
\* the increasing lists of at most n indices among lo..len
Picks(len, lo, n) ==
    IF n = 0 THEN {<<>>}
    ELSE {<<>>} \cup
         UNION { { <<i>> \o rest : rest \in Picks(len, i + 1, n - 1) } :
                 i \in lo..len }

\* the rows of pool at the indices ix
Pick(pool, ix) == [k \in 1..Len(ix) |-> pool[ix[k]]]

\* the edited menus: up to MaxMenuRows rows of the pool, in pool order
EditedMenus ==
    { Pick(MenuPool, ix) : ix \in Picks(Len(MenuPool), 1, MaxMenuRows) \ {<<>>} }

\* rows of an uploaded file: Ticket_ID as read (a number), Customer as typed
BulkPool ==
    << [Ticket_ID |-> 9999, Customer |-> <<"B", " ">>],
       [Ticket_ID |-> 2, Customer |-> <<"A">>],
       [Ticket_ID |-> 2, Customer |-> <<" ", "B">>] >>

\* the uploaded files: up to MaxBulkRows rows of the pool, in pool order
BulkFiles ==
    { Pick(BulkPool, ix) : ix \in Picks(Len(BulkPool), 1, MaxBulkRows) \ {<<>>} }

Customers == {<<"A">>}

Passwords == {"admin123", "wrong"}

(***************************************************************************)
(* Load and save.                                                          *)
(***************************************************************************)
\* the tickets table as load_all_data returns it
load_all_data(db) ==
    [i \in 1..Len(db) |-> [db[i] EXCEPT !.TicketID = zfill(@, IdWidth)]]

\* a tickets table without columns (written from an empty list) cannot be
\* loaded: the script stops at its first line that reads a column
LoadOK == tickets # <<>>

NoBulk ==
    /\ bulk_df' = <<>>
    /\ success_count' = 0
    /\ error_tickets' = <<>>

\* the dashboard is not kept from one run to the next
NoSummary == summary_final' = <<>>

\* the browser sessions, each running the script in the one server process
Sessions == 1..MaxSessions

\* no run under way, nothing cached
NoRun ==
    /\ cache = None
    /\ mem = [s \in Sessions |-> None]
    /\ pc = [s \in Sessions |-> "idle"]

\* a run taken as one step, load to save: the cache is as save left it
\* and no run is under way
OneRun == UNCHANGED <<cache, mem, pc>>

(***************************************************************************)
(* What the forms offer.                                                   *)
(***************************************************************************)
\* menu.loc[menu["Type"] == type, "Category"].dropna().unique()
cat_options(type) ==
    { menu[i].Category : i \in { j \in 1..Len(menu) : menu[j].Type = type } }

Matching(df, type, cat) ==
    { i \in 1..Len(df) : df[i].Type = type /\ df[i].Category = cat }

avail(df, type, cat) ==
    { df[i].TicketID : i \in { j \in Matching(df, type, cat) : ~df[j].Sold } }

sold_tickets(df, type, cat) ==
    { df[i].TicketID : i \in { j \in Matching(df, type, cat) : df[j].Sold } }

elig(df, type, cat) ==
    { df[i].TicketID :
        i \in { j \in Matching(df, type, cat) : df[j].Sold /\ ~df[j].Visited } }

visited_tickets(df, type, cat) ==
    { df[i].TicketID : i \in { j \in Matching(df, type, cat) : df[j].Visited } }

\* str(rv_cat).strip().upper(), on the categories of the pool
UpperStrip(cat) ==
    CASE cat = "Family Silver" -> "FAMILY SILVER"
      [] cat = "Family Bronze" -> "FAMILY BRONZE"
      [] OTHER -> cat

editable_cats == {"FAMILY SILVER", "FAMILY BRONZE"}

allow_edit(cat) == UpperStrip(cat) \in editable_cats

\* str(pd.Timestamp.now())
Now == Some("now")

(***************************************************************************)
(* The handlers.                                                           *)
(***************************************************************************)
Init ==
    /\ menu \in { recompute_menu_fields(m) : m \in InitMenus }
    /\ tickets = reconcile(menu, <<>>)
    /\ op = "Init"
    /\ bulk_df = <<>>
    /\ success_count = 0
    /\ error_tickets = <<>>
    /\ summary_final = <<>>
    /\ NoRun

SoldRow(row, cust) ==
    [row EXCEPT !.Sold = TRUE, !.Customer = cust, !.Timestamp = Now]

\* sale_form: Confirm Sale
Sell ==
    /\ LoadOK
    /\ \E s_type \in Types : \E s_cat \in cat_options(s_type) :
       LET df == load_all_data(tickets)
       IN \E tid \in avail(df, s_type, s_cat) : \E cust \in Customers :
            tickets' = [df EXCEPT ![FirstIndex(df, tid)] = SoldRow(@, cust)]
    /\ op' = "Sell"
    /\ NoBulk
    /\ NoSummary
    /\ OneRun
    /\ UNCHANGED menu

UnsoldRow(row) ==
    [row EXCEPT !.Sold = FALSE, !.Customer = <<>>, !.Visited = FALSE,
                !.Visitor_Seats = 0, !.Timestamp = None]

\* reverse_sale_form: Reverse Sale
ReverseSale ==
    /\ LoadOK
    /\ \E r_type \in Types : \E r_cat \in cat_options(r_type) :
       LET df == load_all_data(tickets)
       IN \E tid \in sold_tickets(df, r_type, r_cat) :
            tickets' = [df EXCEPT ![FirstIndex(df, tid)] = UnsoldRow(@)]
    /\ op' = "ReverseSale"
    /\ NoBulk
    /\ NoSummary
    /\ OneRun
    /\ UNCHANGED menu

\* number_input(min_value=1, max_value=max_v): the counts the form accepts
SeatChoicesPlusOne(max_v) == 1..(max_v + 1)

SeatChoices(max_v) == 1..max_v

EnteredRow(row, v_count) ==
    [row EXCEPT !.Visited = TRUE, !.Visitor_Seats = v_count, !.Timestamp = Now]

\* checkin_form: Confirm Entry
CheckIn ==
    /\ LoadOK
    /\ \E v_type \in Types : \E v_cat \in cat_options(v_type) :
       LET df == load_all_data(tickets)
       IN \E tid \in elig(df, v_type, v_cat) :
            LET idx == FirstIndex(df, tid)
                max_v == df[idx].Admit
            IN \E v_count \in SeatChoices(max_v) :
                 tickets' = [df EXCEPT ![idx] = EnteredRow(@, v_count)]
    /\ op' = "CheckIn"
    /\ NoBulk
    /\ NoSummary
    /\ OneRun
    /\ UNCHANGED menu

LeftRow(row) ==
    [row EXCEPT !.Visited = FALSE, !.Visitor_Seats = 0, !.Timestamp = None]

\* reverse_entry_form, a category that is not editable: Reverse Entry
ReverseCheckIn ==
    /\ LoadOK
    /\ \E rv_type \in Types : \E rv_cat \in cat_options(rv_type) :
       LET df == load_all_data(tickets)
       IN /\ ~allow_edit(rv_cat)
          /\ \E tid \in visited_tickets(df, rv_type, rv_cat) :
               tickets' = [df EXCEPT ![FirstIndex(df, tid)] = LeftRow(@)]
    /\ op' = "ReverseCheckIn"
    /\ NoBulk
    /\ NoSummary
    /\ OneRun
    /\ UNCHANGED menu

\* reverse_entry_form, an editable category: Update Entry
AdjustCheckIn ==
    /\ LoadOK
    /\ \E rv_type \in Types : \E rv_cat \in cat_options(rv_type) :
       LET df == load_all_data(tickets)
       IN /\ allow_edit(rv_cat)
          /\ \E tid \in visited_tickets(df, rv_type, rv_cat) :
               LET idx == FirstIndex(df, tid)
                   max_admit == df[idx].Admit
               IN \E new_seats \in 0..max_admit :
                    tickets' = [df EXCEPT ![idx] =
                                  IF new_seats = 0 THEN LeftRow(@)
                                  ELSE EnteredRow(@, new_seats)]
    /\ op' = "AdjustCheckIn"
    /\ NoBulk
    /\ NoSummary
    /\ OneRun
    /\ UNCHANGED menu

ResetRow(row) ==
    [row EXCEPT !.Sold = FALSE, !.Visited = FALSE, !.Customer = <<>>,
                !.Visitor_Seats = 0, !.Timestamp = None]

ResetDatabaseUngated ==
    /\ LoadOK
    /\ \E admin_pass_input \in Passwords :
       LET df == load_all_data(tickets)
       IN /\ tickets' = [i \in 1..Len(df) |-> ResetRow(df[i])]
          /\ op' = IF admin_pass_input = "admin123" THEN "Reset" ELSE "ResetDenied"
    /\ NoBulk
    /\ NoSummary
    /\ OneRun
    /\ UNCHANGED menu

\* sidebar: Reset Database
ResetDatabase ==
    /\ LoadOK
    /\ \E admin_pass_input \in Passwords :
       LET df == load_all_data(tickets)
       IN IF admin_pass_input = "admin123"
          THEN /\ tickets' = [i \in 1..Len(df) |-> ResetRow(df[i])]
               /\ op' = "Reset"
          ELSE /\ tickets' = tickets
               /\ op' = "ResetDenied"
    /\ NoBulk
    /\ NoSummary
    /\ OneRun
    /\ UNCHANGED menu

\* Edit Menu: Update Database Menu
UpdateDatabaseMenu ==
    /\ LoadOK
    /\ \E menu_pass_input \in Passwords :
       IF menu_pass_input = "admin123"
       THEN /\ \E edited_menu \in EditedMenus :
                 /\ tickets' = reconcile(edited_menu, load_all_data(tickets))
                 /\ menu' = recompute_menu_fields(edited_menu)
            /\ op' = "Reconcile"
       ELSE /\ UNCHANGED <<tickets, menu>>
            /\ op' = "ReconcileDenied"
    /\ NoBulk
    /\ NoSummary
    /\ OneRun

RECURSIVE BulkLoopOverwrite(_, _, _, _, _)
BulkLoopOverwrite(rows, i, df, count, errors) ==
    IF i > Len(rows) THEN [df |-> df, success_count |-> count, error_tickets |-> errors]
    ELSE LET tid == zfill(StrNat(rows[i].Ticket_ID), IdWidth)
             cust == strip(rows[i].Customer)
         IN IF HasId(df, tid)
            THEN BulkLoopOverwrite(rows, i + 1,
                          [df EXCEPT ![LastIndex(df, tid)] = SoldRow(@, cust)],
                          count + 1, errors)
            ELSE BulkLoopOverwrite(rows, i + 1, df, count, Append(errors, tid))

RECURSIVE BulkLoop(_, _, _, _, _)
\* for _, row in bulk_df.iterrows(): sell the row's ticket or note its id
BulkLoop(rows, i, df, count, errors) ==
    IF i > Len(rows) THEN [df |-> df, success_count |-> count, error_tickets |-> errors]
    ELSE LET tid == zfill(StrNat(rows[i].Ticket_ID), IdWidth)
             cust == strip(rows[i].Customer)
         IN IF HasId(df, tid) /\ ~df[LastIndex(df, tid)].Sold
            THEN BulkLoop(rows, i + 1,
                          [df EXCEPT ![LastIndex(df, tid)] = SoldRow(@, cust)],
                          count + 1, errors)
            ELSE BulkLoop(rows, i + 1, df, count, Append(errors, tid))

\* Bulk Upload: Process Bulk Sale (what the handler shows is not kept)
BulkSell ==
    /\ LoadOK
    /\ \E file \in BulkFiles :
         tickets' = BulkLoop(file, 1, load_all_data(tickets), 0, <<>>).df
    /\ op' = "BulkSell"
    /\ NoBulk
    /\ NoSummary
    /\ OneRun
    /\ UNCHANGED menu

\* the same handler, with the file it read and the two results it shows
BulkSellShown ==
    /\ LoadOK
    /\ \E file \in BulkFiles :
       LET r == BulkLoop(file, 1, load_all_data(tickets), 0, <<>>)
       IN /\ tickets' = r.df
          /\ bulk_df' = file
          /\ success_count' = r.success_count
          /\ error_tickets' = r.error_tickets
    /\ op' = "BulkSell"
    /\ NoSummary
    /\ OneRun
    /\ UNCHANGED menu

\* the ids the warning lists: error_tickets[:10]
PreviewLen == 10

\* the warning shown when error_tickets is not empty
bulk_warning ==
    [count |-> Len(error_tickets),
     reason |-> "not found or already sold",
     preview |-> SubSeq(error_tickets, 1,
                        IF Len(error_tickets) > PreviewLen
                        THEN PreviewLen ELSE Len(error_tickets)),
     suffix |-> IF Len(error_tickets) > PreviewLen THEN "..." ELSE ""]

Next ==
    \/ Sell
    \/ BulkSell
    \/ ReverseSale
    \/ CheckIn
    \/ ReverseCheckIn
    \/ AdjustCheckIn
    \/ ResetDatabase
    \/ UpdateDatabaseMenu

Spec == Init /\ [][Next]_vars

NextBulk ==
    \/ Sell
    \/ BulkSellShown
    \/ ReverseSale
    \/ CheckIn
    \/ ReverseCheckIn
    \/ AdjustCheckIn
    \/ ResetDatabase
    \/ UpdateDatabaseMenu

\* the same system, keeping what each bulk sale read and showed
SpecBulk == Init /\ [][NextBulk]_vars

(***************************************************************************)
(* Dashboard: the summary of a ticket table.                               *)
(***************************************************************************)
MaxTickets == 3

\* the columns of groupby(["Seq", "Type", "Category", "Admit"])
group_key(row) ==
    [Seq |-> row.Seq, Type |-> row.Type, Category |-> row.Category,
     Admit |-> row.Admit]

RECURSIVE SumSeats(_, _)
\* ("Visitor_Seats", "sum") over the rows of a group
SumSeats(df, members) ==
    IF members = {} THEN 0
    ELSE LET i == CHOOSE x \in members : TRUE
         IN df[i].Visitor_Seats + SumSeats(df, members \ {i})

\* one row of summary, with its derived columns
group_row(df, key) ==
    LET members == { i \in 1..Len(df) : group_key(df[i]) = key }
        Total_Tickets == Cardinality(members)
        Tickets_Sold == Cardinality({ i \in members : df[i].Sold })
        Total_Visitors == SumSeats(df, members)
        Total_Seats == Total_Tickets * key.Admit
        Seats_sold == Tickets_Sold * key.Admit
    IN [Seq |-> key.Seq, Type |-> key.Type, Category |-> key.Category,
        Admit |-> key.Admit,
        Total_Tickets |-> Total_Tickets,
        Tickets_Sold |-> Tickets_Sold,
        Total_Seats |-> Total_Seats,
        Seats_sold |-> Seats_sold,
        Total_Visitors |-> Total_Visitors,
        Balance_Tickets |-> Total_Tickets - Tickets_Sold,
        Balance_Seats |-> Total_Seats - Seats_sold,
        Balance_Visitors |-> Seats_sold - Total_Visitors]

aggDropNa(df) ==
    { group_row(df, key) :
        key \in { k \in { group_key(df[i]) : i \in 1..Len(df) } : k.Seq # None } }

\* groupby(..., dropna=False).agg(...): one row for each key that occurs, a
\* null Seq being a key like another
agg(df) == { group_row(df, key) : key \in { group_key(df[i]) : i \in 1..Len(df) } }

sort_keyPlain(x) == IF x = None THEN [inf |-> TRUE] ELSE [inf |-> FALSE, v |-> x[1]]

\* float("inf") if pd.isna(x) or x in [0, "0"] else float(x)
sort_key(x) ==
    IF x = None \/ x[1] = 0 THEN [inf |-> TRUE] ELSE [inf |-> FALSE, v |-> x[1]]

\* a <= b on the sort keys
KeyLe(a, b) == b.inf \/ (~a.inf /\ a.v <= b.v)

\* the orders of the rows of a set
Orders(rows) ==
    { s \in [1..Cardinality(rows) -> rows] :
        \A i, j \in 1..Cardinality(rows) : i # j => s[i] # s[j] }

\* sort_values("_k") with the default quicksort, which is not stable: every
\* order of the rows that is ascending in the key
custom_sort(rows) ==
    { s \in Orders(rows) :
        \A i, j \in 1..Len(s) :
            i < j => KeyLe(sort_key(s[i].Seq), sort_key(s[j].Seq)) }

RECURSIVE ColumnSum(_, _, _)
\* the sum of a numeric column over the rows from i on
ColumnSum(s, col, i) ==
    IF i > Len(s) THEN 0 ELSE s[i][col] + ColumnSum(s, col, i + 1)

\* the totals row: sums of the numeric columns, Seq "Total", Type and
\* Category ""
totals(s) ==
    [Seq |-> "Total", Type |-> "", Category |-> "",
     Admit |-> ColumnSum(s, "Admit", 1),
     Total_Tickets |-> ColumnSum(s, "Total_Tickets", 1),
     Tickets_Sold |-> ColumnSum(s, "Tickets_Sold", 1),
     Total_Seats |-> ColumnSum(s, "Total_Seats", 1),
     Seats_sold |-> ColumnSum(s, "Seats_sold", 1),
     Total_Visitors |-> ColumnSum(s, "Total_Visitors", 1),
     Balance_Tickets |-> ColumnSum(s, "Balance_Tickets", 1),
     Balance_Seats |-> ColumnSum(s, "Balance_Seats", 1),
     Balance_Visitors |-> ColumnSum(s, "Balance_Visitors", 1)]

\* the tables the dashboard can show for a table that is not empty
summarize(df) == { Append(s, totals(s)) : s \in custom_sort(agg(df)) }

Ticket(id, seq, type, cat, admit, sold, cust, seats) ==
    [TicketID |-> id, Category |-> cat, Type |-> type, Admit |-> admit,
     Seq |-> seq, Sold |-> sold, Visited |-> seats > 0, Customer |-> cust,
     Visitor_Seats |-> seats, Timestamp |-> IF sold THEN Now ELSE None]

\* tickets a table can hold: Seq positive, 0 or null, sold or not, entered
\* or not, two of them of one group
TicketPool ==
    << Ticket(<<"0", "0", "0", "1">>, Some(2), "Public", "GENERAL", 1, TRUE, <<"A">>, 1),
       Ticket(<<"0", "0", "0", "2">>, Some(2), "Public", "GENERAL", 1, FALSE, <<>>, 0),
       Ticket(<<"0", "0", "0", "3">>, Some(1), "Guest", "Family Silver", 2, TRUE, <<"A">>, 2),
       Ticket(<<"0", "0", "0", "4">>, None, "Guest", "Family Silver", 2, FALSE, <<>>, 0),
       Ticket(<<"0", "0", "0", "5">>, Some(0), "Public", "GENERAL", 1, FALSE, <<>>, 0),
       Ticket(<<"0", "0", "0", "6">>, None, "Public", "GENERAL", 1, TRUE, <<"A">>, 0),
       Ticket(<<"0", "0", "0", "7">>, Some(1), "Public", "GENERAL", 1, FALSE, <<>>, 0) >>

\* the tables summarized: up to MaxTickets tickets of the pool
TicketTables ==
    { Pick(TicketPool, ix) : ix \in Picks(Len(TicketPool), 1, MaxTickets) }

InitSummary ==
    /\ tickets \in TicketTables
    /\ menu = <<>>
    /\ op = "Init"
    /\ bulk_df = <<>>
    /\ success_count = 0
    /\ error_tickets = <<>>
    /\ summary_final = <<>>
    /\ NoRun

\* tab Dashboard: df = tickets.copy(); nothing is shown of an empty table
Dashboard ==
    /\ IF tickets = <<>>
       THEN summary_final' = <<>>
       ELSE summary_final' \in summarize(tickets)
    /\ op' = "Dashboard"
    /\ UNCHANGED <<tickets, menu, bulk_df, success_count, error_tickets>>
    /\ OneRun

NextSummary == Dashboard

\* the dashboard alone, on the tables of TicketTables
SpecSummary == InitSummary /\ [][NextSummary]_vars

(***************************************************************************)
(* Load, cache and save, step by step: the runs of the sessions interleave *)
(* between a run's load, its save's write and its save's cache clear.      *)
(* tickets and menu are the two tables of the store.                       *)
(***************************************************************************)
\* SELECT * FROM tickets / menu, normalised
store == [tickets |-> load_all_data(tickets), menu |-> menu]

\* what load_all_data() returns: the cached value, or the store on a miss
cached_load == IF cache = None THEN store ELSE cache[1]

\* the menu typed in the editor in this part of the model
CacheMenus == { <<MenuPool[2]>> }

\* menu.loc[menu["Type"] == type, "Category"] on a run's own menu
cat_options_of(m, type) ==
    { m[i].Category : i \in { j \in 1..Len(m) : m[j].Type = type } }

\* line 93: tickets, menu = load_all_data(), the result kept by the cache
BeginRun(s) ==
    /\ pc[s] = "idle"
    /\ mem' = [mem EXCEPT ![s] = Some(cached_load)]
    /\ cache' = Some(cached_load)
    /\ pc' = [pc EXCEPT ![s] = "loaded"]
    /\ UNCHANGED <<tickets, menu>>

\* a run in which no button was pressed
EndRun(s) ==
    /\ pc[s] = "loaded"
    /\ mem' = [mem EXCEPT ![s] = None]
    /\ pc' = [pc EXCEPT ![s] = "idle"]
    /\ UNCHANGED <<tickets, menu, cache>>

\* Refresh Data: st.cache_data.clear()
RefreshClear(s) ==
    /\ pc[s] = "loaded"
    /\ cache' = None
    /\ pc' = [pc EXCEPT ![s] = "cleared"]
    /\ UNCHANGED <<tickets, menu, mem>>

\* Refresh Data: tickets, menu = load_all_data(); the run ends
RefreshLoad(s) ==
    /\ pc[s] = "cleared"
    /\ cache' = Some(cached_load)
    /\ mem' = [mem EXCEPT ![s] = None]
    /\ pc' = [pc EXCEPT ![s] = "idle"]
    /\ UNCHANGED <<tickets, menu>>

\* @st.cache_data(ttl=60): the cached value expires
Expire ==
    /\ cache # None
    /\ cache' = None
    /\ UNCHANGED <<tickets, menu, mem, pc>>

SellWriteUpsert(s) ==
    /\ pc[s] = "loaded"
    /\ \E s_type \in Types : \E s_cat \in cat_options_of(mem[s][1].menu, s_type) :
       LET df == mem[s][1].tickets
       IN \E tid \in avail(df, s_type, s_cat) : \E cust \in Customers :
            LET new == [df EXCEPT ![FirstIndex(df, tid)] = SoldRow(@, cust)]
            IN /\ HasId(tickets, tid)
               /\ tickets' = [tickets EXCEPT ![FirstIndex(tickets, tid)] = SoldRow(@, cust)]
               /\ mem' = [mem EXCEPT ![s] = Some([@[1] EXCEPT !.tickets = new])]
    /\ pc' = [pc EXCEPT ![s] = "written"]
    /\ UNCHANGED <<menu, cache>>

\* Confirm Sale up to the write of save_tickets_df
SellWrite(s) ==
    /\ pc[s] = "loaded"
    /\ \E s_type \in Types : \E s_cat \in cat_options_of(mem[s][1].menu, s_type) :
       LET df == mem[s][1].tickets
       IN \E tid \in avail(df, s_type, s_cat) : \E cust \in Customers :
            LET new == [df EXCEPT ![FirstIndex(df, tid)] = SoldRow(@, cust)]
            IN /\ tickets' = new
               /\ mem' = [mem EXCEPT ![s] = Some([@[1] EXCEPT !.tickets = new])]
    /\ pc' = [pc EXCEPT ![s] = "written"]
    /\ UNCHANGED <<menu, cache>>

\* Reverse Sale up to the write of save_tickets_df
ReverseSaleWrite(s) ==
    /\ pc[s] = "loaded"
    /\ \E r_type \in Types : \E r_cat \in cat_options_of(mem[s][1].menu, r_type) :
       LET df == mem[s][1].tickets
       IN \E tid \in sold_tickets(df, r_type, r_cat) :
            LET new == [df EXCEPT ![FirstIndex(df, tid)] = UnsoldRow(@)]
            IN /\ tickets' = new
               /\ mem' = [mem EXCEPT ![s] = Some([@[1] EXCEPT !.tickets = new])]
    /\ pc' = [pc EXCEPT ![s] = "written"]
    /\ UNCHANGED <<menu, cache>>

\* Update Database Menu up to the write of save_both
MenuUpdateWrite(s) ==
    /\ pc[s] = "loaded"
    /\ \E edited_menu \in CacheMenus :
       LET new_t == reconcile(edited_menu, mem[s][1].tickets)
           new_m == recompute_menu_fields(edited_menu)
       IN /\ tickets' = new_t
          /\ menu' = new_m
          /\ mem' = [mem EXCEPT ![s] = Some([tickets |-> new_t, menu |-> new_m])]
    /\ pc' = [pc EXCEPT ![s] = "written"]
    /\ UNCHANGED cache

ReturnWithoutClear(s) ==
    /\ pc[s] = "written"
    /\ mem' = [mem EXCEPT ![s] = None]
    /\ pc' = [pc EXCEPT ![s] = "idle"]
    /\ UNCHANGED <<tickets, menu, cache>>

\* the last line of save_tickets_df / save_both: st.cache_data.clear(); the
\* save returns and the run ends
SaveClear(s) ==
    /\ pc[s] = "written"
    /\ cache' = None
    /\ mem' = [mem EXCEPT ![s] = None]
    /\ pc' = [pc EXCEPT ![s] = "idle"]
    /\ UNCHANGED <<tickets, menu>>

\* a step of a run shows nothing that the model keeps
NotShown == UNCHANGED <<op, bulk_df, success_count, error_tickets, summary_final>>

NextCache ==
    \/ \E s \in Sessions : BeginRun(s) /\ NotShown
    \/ \E s \in Sessions : EndRun(s) /\ NotShown
    \/ \E s \in Sessions : RefreshClear(s) /\ NotShown
    \/ \E s \in Sessions : RefreshLoad(s) /\ NotShown
    \/ Expire /\ NotShown
    \/ \E s \in Sessions : SellWrite(s) /\ NotShown
    \/ \E s \in Sessions : ReverseSaleWrite(s) /\ NotShown
    \/ \E s \in Sessions : MenuUpdateWrite(s) /\ NotShown
    \/ \E s \in Sessions : SaveClear(s) /\ NotShown

\* the sessions of one server process, their runs interleaved
SpecCache == Init /\ [][NextCache]_vars

(***************************************************************************)
(* Edit Menu: the recomputation of Alloc and Total_Capacity alone.         *)
(***************************************************************************)
\* the menus recomputed: up to MaxMenuRows rows of RecomputePool
RecomputeMenus ==
    { Pick(RecomputePool, ix) :
        ix \in Picks(Len(RecomputePool), 1, MaxMenuRows) \ {<<>>} }

InitMenu ==
    /\ menu \in RecomputeMenus
    /\ tickets = <<>>
    /\ op = "Init"
    /\ bulk_df = <<>>
    /\ success_count = 0
    /\ error_tickets = <<>>
    /\ summary_final = <<>>
    /\ NoRun

\* menu_display = recompute_menu_fields(menu_display)
Recompute ==
    /\ menu' = recompute_menu_fields(menu)
    /\ op' = "Recompute"
    /\ UNCHANGED <<tickets, bulk_df, success_count, error_tickets>>
    /\ NoSummary
    /\ OneRun

NextMenu == Recompute

\* the recomputation alone, on the menus of RecomputeMenus
SpecMenu == InitMenu /\ [][NextMenu]_vars

(***************************************************************************)
(* Vocabulary of the properties, stated without the handlers' operators.   *)
(***************************************************************************)
\* the 4-digit zero-padded id of n (n below 10000)
Pad4(n) ==
    << DigitChar((n \div 1000) % 10), DigitChar((n \div 100) % 10),
       DigitChar((n \div 10) % 10), DigitChar(n % 10) >>

\* the integer a TicketID denotes
IdNum(id) == DigitsVal(id)

DashAt(s) == { i \in 1..Len(s) : s[i] = "-" }

BeforeDash(s) == SubSeq(s, 1, (CHOOSE i \in DashAt(s) : TRUE) - 1)

AfterDash(s) == SubSeq(s, (CHOOSE i \in DashAt(s) : TRUE) + 1, Len(s))

\* exactly one "-" separator with an integer on each side
WellFormedSeries(s) ==
    /\ Cardinality(DashAt(s)) = 1
    /\ IntOK(BeforeDash(s))
    /\ IntOK(AfterDash(s))

\* the integers of the range of a menu row (none for a malformed Series)
RangeOf(row) ==
    IF WellFormedSeries(row.Series)
    THEN IntVal(BeforeDash(row.Series))..IntVal(AfterDash(row.Series))
    ELSE {}

\* the integers covered by some well-formed Series of the menu
Covered(m) == UNION { RangeOf(m[k]) : k \in 1..Len(m) }

\* the menu rows whose Series covers n
CoveringRows(m, n) == { k \in 1..Len(m) : n \in RangeOf(m[k]) }

Rows(df) == { df[i] : i \in 1..Len(df) }

Ids(df) == { df[i].TicketID : i \in 1..Len(df) }

\* the menu without its rows of malformed Series
WellFormedOnly(m) == SelectSeq(m, LAMBDA row : WellFormedSeries(row.Series))

(***************************************************************************)
(* C1: every ticket always has 0 <= Visitor_Seats <= Admit.                *)
(***************************************************************************)
SeatsWithinAdmit ==
    \A i \in 1..Len(tickets) :
        0 <= tickets[i].Visitor_Seats /\ tickets[i].Visitor_Seats <= tickets[i].Admit

\* an entry that filled a two-seat ticket
SeatsWithinAdmitWitness ==
    /\ op = "CheckIn"
    /\ \E i \in 1..Len(tickets) :
         /\ tickets[i].Visited
         /\ tickets[i].Admit = 2
         /\ tickets[i].Visitor_Seats = tickets[i].Admit

(***************************************************************************)
(* C2: no ticket is ever Visited while it is not Sold.                     *)
(***************************************************************************)
VisitedImpliesSold ==
    \A i \in 1..Len(tickets) : tickets[i].Visited => tickets[i].Sold

(***************************************************************************)
(* C3: the menu update is idempotent: building the tickets again from the  *)
(* same menu and the tickets just built yields the same set of tickets.    *)
(***************************************************************************)
ReconcileIdempotent ==
    op = "Reconcile" => Rows(reconcile(menu, tickets)) = Rows(tickets)

(***************************************************************************)
(* C4: the menu update keeps every existing ticket whose id a well-formed  *)
(* Series covers, with every field as it was.                              *)
(***************************************************************************)
ReconcilePreservesExisting ==
    [][op' = "Reconcile" =>
          \A i \in 1..Len(tickets) :
              IdNum(tickets[i].TicketID) \in Covered(menu')
                  => tickets[i] \in Rows(tickets')]_vars

(***************************************************************************)
(* C5: after the menu update the TicketIDs are exactly the 4-digit ids of  *)
(* the integers covered by the well-formed Series of the menu.             *)
(***************************************************************************)
ReconcileIdsExact ==
    [][op' = "Reconcile" =>
          Ids(tickets') = { Pad4(n) : n \in Covered(menu') }]_vars

(***************************************************************************)
(* C6: no two ticket records ever have the same TicketID.                  *)
(***************************************************************************)
TicketIdUnique ==
    \A i, j \in 1..Len(tickets) :
        i # j => tickets[i].TicketID # tickets[j].TicketID

(***************************************************************************)
(* C7: after the menu update every ticket's id lies in the range of        *)
(* exactly one menu row, and that row has the ticket's Category and Type.  *)
(***************************************************************************)
ReconcileEstablishesMenuLink ==
    [][op' = "Reconcile" =>
          \A i \in 1..Len(tickets') :
              LET rows == CoveringRows(menu', IdNum(tickets'[i].TicketID))
              IN /\ Cardinality(rows) = 1
                 /\ \A k \in rows :
                      /\ menu'[k].Category = tickets'[i].Category
                      /\ menu'[k].Type = tickets'[i].Type]_vars

(***************************************************************************)
(* C8: a menu row of malformed Series adds no ticket and stops nothing:    *)
(* the update completes, and the tickets are those the menu without its    *)
(* malformed rows would give.                                              *)
(***************************************************************************)
MalformedRowsIsolated ==
    [][op' = "Reconcile" =>
          tickets' = reconcile(WellFormedOnly(menu'), tickets)]_vars

\* an update whose first row is malformed and whose second row gave tickets
MalformedRowsIsolatedWitness ==
    /\ op = "Reconcile"
    /\ Len(menu) = 2
    /\ ~WellFormedSeries(menu[1].Series)
    /\ WellFormedSeries(menu[2].Series)
    /\ Ids(tickets) = { Pad4(n) : n \in RangeOf(menu[2]) }
    /\ tickets # <<>>

(***************************************************************************)
(* C9: a bulk sale takes the rows in order; a row whose ticket exists and  *)
(* is unsold when the row is reached sells it to the row's customer; every *)
(* other row changes nothing and adds its id to the failures, in row       *)
(* order; the two counts add up to the number of rows.  The ticket of a    *)
(* row is the record its id resolves to (the last one bearing the id).     *)
(***************************************************************************)
RowId(file, k) == Pad4(file[k].Ticket_ID)

\* row k finds its ticket, unsold before the batch and not sold by an
\* earlier row of the batch
RowSells(file, df, k) ==
    /\ RowId(file, k) \in Ids(df)
    /\ \A i \in 1..Len(df) :
         (df[i].TicketID = RowId(file, k)
            /\ \A j \in (i + 1)..Len(df) : df[j].TicketID # RowId(file, k))
         => ~df[i].Sold
    /\ \A j \in 1..(k - 1) : RowId(file, j) # RowId(file, k)

RECURSIVE FailedIds(_, _, _)
\* the ids of the rows from k on that do not sell, in row order
FailedIds(file, df, k) ==
    IF k > Len(file) THEN <<>>
    ELSE IF RowSells(file, df, k) THEN FailedIds(file, df, k + 1)
    ELSE <<RowId(file, k)>> \o FailedIds(file, df, k + 1)

\* the rows that sell record i of df
SellersOf(file, df, i) ==
    { k \in 1..Len(file) :
        /\ RowSells(file, df, k)
        /\ df[i].TicketID = RowId(file, k)
        /\ \A j \in (i + 1)..Len(df) : df[j].TicketID # RowId(file, k) }

BulkSellIsolatesFaults ==
    [][op' = "BulkSell" =>
          /\ success_count' = Cardinality({ k \in 1..Len(bulk_df') : RowSells(bulk_df', tickets, k) })
          /\ error_tickets' = FailedIds(bulk_df', tickets, 1)
          /\ success_count' + Len(error_tickets') = Len(bulk_df')
          /\ Len(tickets') = Len(tickets)
          /\ \A i \in 1..Len(tickets) :
               IF SellersOf(bulk_df', tickets, i) = {}
               THEN tickets'[i] = tickets[i]
               ELSE \A k \in SellersOf(bulk_df', tickets, i) :
                      tickets'[i] = [tickets[i] EXCEPT
                                        !.Sold = TRUE,
                                        !.Customer = strip(bulk_df'[k].Customer),
                                        !.Timestamp = Now]]_vars

\* a batch whose first row sold ticket 0002 and whose second row, for the
\* same ticket, failed and left the first row's customer in place
BulkSellIsolatesFaultsWitness ==
    /\ op = "BulkSell"
    /\ Len(bulk_df) = 2
    /\ bulk_df[1].Ticket_ID = 2
    /\ bulk_df[2].Ticket_ID = 2
    /\ success_count = 1
    /\ error_tickets = <<Pad4(2)>>
    /\ \E i \in 1..Len(tickets) :
         /\ tickets[i].TicketID = Pad4(2)
         /\ tickets[i].Sold
         /\ tickets[i].Customer = strip(bulk_df[1].Customer)
         /\ tickets[i].Customer # strip(bulk_df[2].Customer)

(***************************************************************************)
(* C10: the failure report of a bulk sale tells a row that failed because  *)
(* its ticket does not exist from a row that failed because its ticket     *)
(* was already sold.                                                       *)
(***************************************************************************)
\* why the k-th failed row failed: the ids of the table do not change
FailureCause(k) ==
    IF error_tickets[k] \in Ids(tickets) THEN "already sold" ELSE "not found"

\* what the report says of the k-th failed row: its id and the one reason
\* the warning gives for all of them
Reported(k) == [id |-> error_tickets[k], reason |-> bulk_warning.reason]

BulkReportTellsCause ==
    op = "BulkSell" =>
        \A k1, k2 \in 1..Len(error_tickets) :
            FailureCause(k1) # FailureCause(k2)
                => Reported(k1).reason # Reported(k2).reason

(***************************************************************************)
(* C11: the single-record operations fail closed: a sale changes no record *)
(* that was already sold, a sale reversal none that was unsold, an entry   *)
(* none that was unsold or already visited and writes a count within       *)
(* 1..Admit, an entry reversal or update none that was not visited.        *)
(***************************************************************************)
\* the records the step wrote
Changed == { i \in 1..Len(tickets) : tickets'[i] # tickets[i] }

SingleRecordFailClosed ==
    [][/\ op' = "Sell" => \A i \in Changed : ~tickets[i].Sold
       /\ op' = "ReverseSale" => \A i \in Changed : tickets[i].Sold
       /\ op' = "CheckIn" =>
            \A i \in Changed :
                /\ tickets[i].Sold /\ ~tickets[i].Visited
                /\ 1 <= tickets'[i].Visitor_Seats
                /\ tickets'[i].Visitor_Seats <= tickets[i].Admit
       /\ op' \in {"ReverseCheckIn", "AdjustCheckIn"} =>
            \A i \in Changed : tickets[i].Visited]_vars

(***************************************************************************)
(* C12: the administrative gate.  A reset with the password clears Sold,   *)
(* Visited, Customer, Visitor_Seats and Timestamp of every ticket and      *)
(* leaves the tickets' other fields, their number and order, and the menu  *)
(* as they were; a reset or a menu update without the password leaves the  *)
(* tickets and the menu as they were.                                      *)
(***************************************************************************)
AdminGate ==
    [][/\ op' = "Reset" =>
            /\ menu' = menu
            /\ Len(tickets') = Len(tickets)
            /\ \A i \in 1..Len(tickets) :
                 tickets'[i] = [tickets[i] EXCEPT !.Sold = FALSE,
                                                  !.Visited = FALSE,
                                                  !.Customer = <<>>,
                                                  !.Visitor_Seats = 0,
                                                  !.Timestamp = None]
       /\ op' \in {"ResetDenied", "ReconcileDenied"} =>
            /\ tickets' = tickets
            /\ menu' = menu]_vars

\* a reset refused while a ticket was sold and checked in
AdminGateWitness ==
    /\ op = "ResetDenied"
    /\ \E i \in 1..Len(tickets) : tickets[i].Sold /\ tickets[i].Visited

(***************************************************************************)
(* C13: the totals of the summary reconcile.  For a table that is not      *)
(* empty, each ticket belongs to exactly one group row (the row of its     *)
(* Seq, Type, Category and Admit, a null Seq included), each group row     *)
(* counts the tickets that belong to it, the counts add up to the number   *)
(* of tickets, and the total row shows that number.                        *)
(***************************************************************************)
\* the rows of the summary before its total row
GroupRows(s) == 1..(Len(s) - 1)

\* the ticket belongs to the group of the row
InGroup(t, row) ==
    /\ row.Seq = t.Seq
    /\ row.Type = t.Type
    /\ row.Category = t.Category
    /\ row.Admit = t.Admit

RECURSIVE SumTotalTickets(_, _)
SumTotalTickets(s, n) ==
    IF n = 0 THEN 0 ELSE s[n].Total_Tickets + SumTotalTickets(s, n - 1)

SummaryTotalsReconcile ==
    (op = "Dashboard" /\ tickets # <<>>) =>
        /\ summary_final # <<>>
        /\ \A i \in 1..Len(tickets) :
             Cardinality({ g \in GroupRows(summary_final) :
                             InGroup(tickets[i], summary_final[g]) }) = 1
        /\ \A g \in GroupRows(summary_final) :
             summary_final[g].Total_Tickets =
                 Cardinality({ i \in 1..Len(tickets) :
                                 InGroup(tickets[i], summary_final[g]) })
        /\ SumTotalTickets(summary_final, Len(summary_final) - 1) = Len(tickets)
        /\ summary_final[Len(summary_final)].Total_Tickets = Len(tickets)

\* a summary of three tickets, two of one group and one of null Seq
SummaryTotalsReconcileWitness ==
    /\ op = "Dashboard"
    /\ Len(tickets) = 3
    /\ Len(summary_final) = 3
    /\ \E i \in 1..Len(tickets) : tickets[i].Seq = None
    /\ \E g \in GroupRows(summary_final) : summary_final[g].Total_Tickets = 2

(***************************************************************************)
(* C14: the order of the summary.  Before the total row, a group of null   *)
(* or 0 Seq comes after every group of positive Seq, the groups of         *)
(* positive Seq are in ascending order of Seq, and the total row is the    *)
(* last row.                                                               *)
(***************************************************************************)
PositiveSeq(row) == row.Seq # None /\ row.Seq[1] > 0

NullOrZeroSeq(row) == row.Seq = None \/ row.Seq[1] = 0

SummarySortOrder ==
    (op = "Dashboard" /\ tickets # <<>>) =>
        /\ \A i, j \in GroupRows(summary_final) :
             (NullOrZeroSeq(summary_final[i]) /\ PositiveSeq(summary_final[j]))
                 => j < i
        /\ \A i, j \in GroupRows(summary_final) :
             (PositiveSeq(summary_final[i]) /\ PositiveSeq(summary_final[j])
                /\ i < j)
                 => summary_final[i].Seq[1] <= summary_final[j].Seq[1]
        /\ summary_final # <<>>
        /\ summary_final[Len(summary_final)].Seq = "Total"
        /\ Len(summary_final) - 1 =
               Cardinality({ <<tickets[i].Seq, tickets[i].Type,
                               tickets[i].Category, tickets[i].Admit>> :
                             i \in 1..Len(tickets) })

\* a summary with groups of Seq 1, 2 and 0, in that order
SummarySortOrderWitness ==
    /\ op = "Dashboard"
    /\ Len(summary_final) = 4
    /\ summary_final[1].Seq = Some(1)
    /\ summary_final[2].Seq = Some(2)
    /\ summary_final[3].Seq = Some(0)

(***************************************************************************)
(* C15: cache invalidation.  When a save returns, the cache holds nothing; *)
(* and a load issued while no save stands between its write and its        *)
(* return gives the tables of the store as last written, not tables        *)
(* cached before that write.                                               *)
(***************************************************************************)
\* the tables as stored
Stored == [tickets |-> tickets, menu |-> menu]

\* no save has written and not yet returned
NoSaveUnderWay == \A t \in Sessions : pc[t] # "written"

CacheInvalidatedOnSave ==
    [][\A s \in Sessions :
          /\ (pc[s] = "written" /\ pc'[s] = "idle") => cache' = None
          /\ (pc[s] = "idle" /\ pc'[s] = "loaded" /\ NoSaveUnderWay)
                => mem'[s] = Some(Stored)]_vars

\* a run that loaded the table with a sale, after the save of that sale
\* had returned and with no other run under way
CacheInvalidatedOnSaveWitness ==
    \E s \in Sessions :
        /\ pc[s] = "loaded"
        /\ \A t \in Sessions \ {s} : pc[t] = "idle"
        /\ mem[s] = Some(Stored)
        /\ Len(tickets) = 2
        /\ tickets[1].Sold
        /\ ~tickets[2].Sold

(***************************************************************************)
(* C16: a sale reversal acts on a sold ticket: it sets Sold false,         *)
(* Customer "", Visited false, Visitor_Seats 0 and Timestamp null on that  *)
(* ticket, checked in or not, and changes nothing else.                    *)
(***************************************************************************)
ReverseSaleClearsTicket ==
    [][op' = "ReverseSale" =>
          \E i \in 1..Len(tickets) :
              /\ tickets[i].Sold
              /\ tickets' = [tickets EXCEPT ![i] =
                                [@ EXCEPT !.Sold = FALSE,
                                          !.Customer = <<>>,
                                          !.Visited = FALSE,
                                          !.Visitor_Seats = 0,
                                          !.Timestamp = None]]]_vars

(***************************************************************************)
(* C17: an entry acts on a ticket that is sold and not visited, with a     *)
(* count from 1 to the ticket's Admit: it sets Visited true and            *)
(* Visitor_Seats to the count on that ticket (and its Timestamp), and      *)
(* leaves its Sold and Customer and every other ticket as they were.       *)
(***************************************************************************)
CheckInEffect ==
    [][op' = "CheckIn" =>
          \E i \in 1..Len(tickets) :
              /\ tickets[i].Sold
              /\ ~tickets[i].Visited
              /\ \E n \in 1..tickets[i].Admit :
                   tickets' = [tickets EXCEPT ![i] =
                                 [@ EXCEPT !.Visited = TRUE,
                                           !.Visitor_Seats = n,
                                           !.Timestamp = tickets'[i].Timestamp]]]_vars

(***************************************************************************)
(* C18: the reversal of an entry is routed by category.  Reverse Entry     *)
(* acts on a visited ticket whose category is not a family category and    *)
(* sets Visited false, Visitor_Seats 0, Timestamp null; Update Entry acts  *)
(* on a visited ticket of a family category, a count of 0 doing what       *)
(* Reverse Entry does and a count from 1 to Admit setting Visitor_Seats    *)
(* with Visited still true.  Sold, Customer and the other tickets are as   *)
(* they were.                                                              *)
(***************************************************************************)
\* FAMILY SILVER or FAMILY BRONZE, in the spellings of the model
FamilyCategory(cat) ==
    cat \in {"FAMILY SILVER", "FAMILY BRONZE", "Family Silver", "Family Bronze"}

EntryCleared(t) ==
    [t EXCEPT !.Visited = FALSE, !.Visitor_Seats = 0, !.Timestamp = None]

ReversalRoutedByCategory ==
    [][/\ op' = "ReverseCheckIn" =>
            \E i \in 1..Len(tickets) :
                /\ tickets[i].Visited
                /\ ~FamilyCategory(tickets[i].Category)
                /\ tickets' = [tickets EXCEPT ![i] = EntryCleared(@)]
       /\ op' = "AdjustCheckIn" =>
            \E i \in 1..Len(tickets) :
                /\ tickets[i].Visited
                /\ FamilyCategory(tickets[i].Category)
                /\ \/ tickets' = [tickets EXCEPT ![i] = EntryCleared(@)]
                   \/ \E n \in 1..tickets[i].Admit :
                        tickets' = [tickets EXCEPT ![i] =
                                      [@ EXCEPT !.Visited = TRUE,
                                                !.Visitor_Seats = n,
                                                !.Timestamp = tickets'[i].Timestamp]]]_vars

(***************************************************************************)
(* C19: for every id that a well-formed Series of the menu covers and no   *)
(* existing ticket bears, the menu update creates a record: unsold, not    *)
(* visited, Customer "", Visitor_Seats 0, Timestamp null, and with the     *)
(* Category, Type, Admit and Seq of a menu row whose Series covers it.     *)
(***************************************************************************)
\* the record is a fresh one made from the menu row
FreshFrom(t, m_row) ==
    /\ ~t.Sold
    /\ ~t.Visited
    /\ t.Customer = <<>>
    /\ t.Visitor_Seats = 0
    /\ t.Timestamp = None
    /\ t.Category = m_row.Category
    /\ t.Type = m_row.Type
    /\ m_row.Admit = Some(t.Admit)
    /\ t.Seq = m_row.Seq

ReconcileCreatesMissing ==
    [][op' = "Reconcile" =>
          \A n \in Covered(menu') :
              Pad4(n) \notin Ids(tickets) =>
                  /\ Pad4(n) \in Ids(tickets')
                  /\ \A i \in 1..Len(tickets') :
                       tickets'[i].TicketID = Pad4(n) =>
                           \E k \in CoveringRows(menu', n) :
                               FreshFrom(tickets'[i], menu'[k])]_vars

(***************************************************************************)
(* C20: the recomputation of the menu.  A row whose Series is integers     *)
(* start-end, end below start included, gets Alloc = end - start + 1 and   *)
(* Total_Capacity = Alloc * Admit; a row whose Series is invalid keeps its *)
(* Alloc and Total_Capacity; the other rows are recomputed all the same    *)
(* and no other cell changes.                                              *)
(***************************************************************************)
SeriesCount(s) == IntVal(AfterDash(s)) - IntVal(BeforeDash(s)) + 1

MenuRecomputed ==
    [][op' = "Recompute" =>
          /\ Len(menu') = Len(menu)
          /\ \A k \in 1..Len(menu) :
               /\ menu'[k] = [menu[k] EXCEPT !.Alloc = menu'[k].Alloc,
                                             !.Total_Capacity = menu'[k].Total_Capacity]
               /\ IF WellFormedSeries(menu[k].Series)
                  THEN /\ menu'[k].Alloc = Some(SeriesCount(menu[k].Series))
                       /\ menu[k].Admit # None =>
                            menu'[k].Total_Capacity =
                                Some(SeriesCount(menu[k].Series) * menu[k].Admit[1])
                  ELSE /\ menu'[k].Alloc = menu[k].Alloc
                       /\ menu'[k].Total_Capacity = menu[k].Total_Capacity]_vars

(***************************************************************************)
(* C21: the last writer wins.  A save stores the whole table of the run    *)
(* that saves, as that run loaded and changed it; so when two runs have    *)
(* each loaded, changed their own copy and saved, the stored tickets are   *)
(* the copy of the run that saved last, and what the first run had saved   *)
(* on a ticket the second run did not touch is gone from the store.        *)
(***************************************************************************)
\* the run of session s writes its save in this step
Writes(s) == pc[s] = "loaded" /\ pc'[s] = "written"

LastWriterWins ==
    [][\A s \in Sessions :
          Writes(s) =>
              /\ tickets' = mem'[s][1].tickets
              /\ Len(mem'[s][1].tickets) = Len(mem[s][1].tickets) =>
                   \A i \in 1..Len(tickets') :
                       mem'[s][1].tickets[i] = mem[s][1].tickets[i]
                           => tickets'[i] = mem[s][1].tickets[i]]_vars

\* two runs have written, each the sale of another ticket to its own copy;
\* the store is the copy of one of them, without the sale the other wrote
LastWriterWinsWitness ==
    \E a, b \in Sessions :
        /\ a # b
        /\ pc[a] = "written"
        /\ pc[b] = "written"
        /\ tickets = mem[b][1].tickets
        /\ Len(tickets) = 2
        /\ Len(mem[a][1].tickets) = 2
        /\ mem[a][1].tickets[1].Sold
        /\ ~mem[a][1].tickets[2].Sold
        /\ ~tickets[1].Sold
        /\ tickets[2].Sold

(***************************************************************************)
(* C22: unsold tickets are pristine: always, every ticket that is not      *)
(* sold has an empty Customer, is not visited, has Visitor_Seats 0 and no  *)
(* Timestamp, and every ticket is visited exactly when its Visitor_Seats   *)
(* is at least 1.                                                          *)
(***************************************************************************)
Pristine(t) ==
    /\ t.Customer = <<>>
    /\ ~t.Visited
    /\ t.Visitor_Seats = 0
    /\ t.Timestamp = None

UnsoldPristine ==
    \A i \in 1..Len(tickets) :
        /\ ~tickets[i].Sold => Pristine(tickets[i])
        /\ tickets[i].Visited <=> tickets[i].Visitor_Seats >= 1

(***************************************************************************)
(* C23: the balances of the summary are never negative: always, every      *)
(* group row of the summary of the tickets has Balance_Tickets >= 0,       *)
(* Balance_Seats >= 0 and Balance_Visitors = Seats_sold - Total_Visitors   *)
(* >= 0 (the order of the rows and the Total row play no part: the group   *)
(* rows of summarize are the rows of agg).                                 *)
(***************************************************************************)
BalancesNonNegative ==
    tickets # <<>> =>
        \A row \in agg(tickets) :
            /\ row.Balance_Tickets >= 0
            /\ row.Balance_Seats >= 0
            /\ row.Balance_Visitors = row.Seats_sold - row.Total_Visitors
            /\ row.Balance_Visitors >= 0

====
